---- MODULE Spec2Model ----
\* Soft-delete lifecycle and slug generation of the catalogue backend
\* (Attribute, AttributeValue, Brand, Category, Subcategory, Producto).
EXTENDS Integers, Sequences, FiniteSets, TLC

\* kind  : the entity type whose table and endpoints the run exercises
\* store : the table, store[pk] being the row with primary key pk
\* last  : the request just answered
\* mark  : number of rows when the last request other than a create was
\*         served (rows above it were created since and not touched)
\* steps : requests served so far
\* page  : primary keys of the rows the body of the last answer carried
\*         (set by the list and retrieve endpoints, empty otherwise)
\* race  : per client, the create request it has in flight when requests
\*         overlap: where it stands, the row it is about to insert, and the
\*         status it was answered with
\* parents : the tables the foreign keys point into (Attribute, Category,
\*           Brand), each row reduced to what a child's validation reads
\*           (deleted_at, is_active)
\* rel   : the foreign-key and unique-key columns of the rows of store, in
\*         runs that vary them: rel[pk] = [parent, parent2, key]
\* assoc : the CategoriaAtributo table: assoc.rows[pk] = [categoria,
\*         atributo], assoc.seq the last primary key handed out
\* precios : the price and stock columns of the rows of store, in runs on
\*           Producto that vary them: precios[pk] = [precio_base,
\*           precio_descuento, stock_actual]
VARIABLES kind, store, last, mark, steps, page, race, parents, rel, assoc, precios

vars == <<kind, store, last, mark, steps, page, race, parents, rel, assoc, precios>>

\* ---------------------------------------------------------------- bounds
\* rows per store
MaxRecords == 3

\* requests per run when the admin bulk actions take part
MaxOps == 4

\* requests per run of API requests alone
MaxApiOps == 5

\* requests per run when the reading endpoints take part
MaxReadOps == 4

\* clients whose create requests may overlap, and steps per such run
MaxClients == 2

MaxRaceOps == 5

\* rows per parent table; child rows and requests per run that varies
\* parents and keys
MaxParents == 2

MaxRelRecords == 2

MaxRelOps == 3

\* ---------------------------------------------------------------- entity types
Kinds == {"Attribute", "AttributeValue", "Brand", "Category", "Subcategory", "Producto"}

\* models that declare a unique slug column and regenerate it in save()
HasSlug(k) == k \in {"Attribute", "Brand", "Category", "Subcategory", "Producto"}

\* models that carry an active flag (is_active / activo)
HasActive(k) == k \in {"AttributeValue", "Brand", "Category", "Subcategory", "Producto"}

\* only Producto carries publicado
HasPublicado(k) == k = "Producto"

\* serializers whose validate() rejects a name already used by a visible record
NameUnique(k) == k \in {"Attribute", "Brand", "Category", "Subcategory"}

\* status returned by a successful DELETE
DeleteOkStatus(k) == IF k = "AttributeValue" THEN 204 ELSE 200

\* ---------------------------------------------------------------- names and slugs
\* A name is a sequence of characters; a slug is a sequence of characters.
Absent == <<>>

\* names a request may carry: "x", "X", "x!" and "x?" slugify to "x" and
\* only "x" and "X" are equal ignoring case
Names == { <<"x">>, <<"X">>, <<"x", "!">>, <<"x", "?">>, <<"y">> }

LowerChar(c) == IF c = "X" THEN "x" ELSE IF c = "Y" THEN "y" ELSE c

Lower(s) == [i \in 1..Len(s) |-> LowerChar(s[i])]

IsWordChar(c) == c \in {"x", "y", "X", "Y", "0", "1", "2", "3", "4", "5", "6", "7", "8", "9", "_"}

IsSep(c) == c \in {" ", "-"}

\* re.sub(r'[^\w\s-]', '', value): drop everything that is not a word
\* character, whitespace or a hyphen
RECURSIVE DropPunct(_)
DropPunct(s) ==
    IF s = <<>> THEN <<>>
    ELSE IF IsWordChar(Head(s)) \/ IsSep(Head(s))
         THEN <<Head(s)>> \o DropPunct(Tail(s))
         ELSE DropPunct(Tail(s))

\* re.sub(r'[-\s]+', '-', value): every run of separators becomes one hyphen
RECURSIVE CollapseSeps(_)
CollapseSeps(s) ==
    IF s = <<>> THEN <<>>
    ELSE IF IsSep(Head(s))
         THEN IF Tail(s) # <<>> /\ IsSep(Head(Tail(s)))
              THEN CollapseSeps(Tail(s))
              ELSE <<"-">> \o CollapseSeps(Tail(s))
         ELSE <<Head(s)>> \o CollapseSeps(Tail(s))

RECURSIVE StripLeft(_)
StripLeft(s) ==
    IF s # <<>> /\ Head(s) \in {"-", "_"} THEN StripLeft(Tail(s)) ELSE s

RECURSIVE StripRight(_)
StripRight(s) ==
    IF s # <<>> /\ s[Len(s)] \in {"-", "_"}
    THEN StripRight(SubSeq(s, 1, Len(s) - 1))
    ELSE s

\* django.utils.text.slugify
slugify(name) == StripRight(StripLeft(CollapseSeps(DropPunct(Lower(name)))))

DigitChar(d) ==
    CASE d = 0 -> "0" [] d = 1 -> "1" [] d = 2 -> "2" [] d = 3 -> "3" [] d = 4 -> "4"
      [] d = 5 -> "5" [] d = 6 -> "6" [] d = 7 -> "7" [] d = 8 -> "8" [] d = 9 -> "9"

\* str(counter) for a positive counter
RECURSIVE Decimal(_)
Decimal(n) == IF n < 10 THEN <<DigitChar(n)>> ELSE Decimal(n \div 10) \o <<DigitChar(n % 10)>>

\* variant: the separator between base and counter is left out
SuffixedNoHyphen(base, counter) == base \o Decimal(counter)

\* f"{base_slug}-{counter}"
Suffixed(base, counter) == base \o <<"-">> \o Decimal(counter)

\* name__iexact
IExact(a, b) == Lower(a) = Lower(b)

\* ---------------------------------------------------------------- the entity store
\* store[pk] is the row with primary key pk; rows are never removed by the
\* operations modelled here.
NoPk == 0

Pks(st) == DOMAIN st

\* Manager.get_queryset(): the default view hides soft-deleted rows
Objects(st) == {p \in Pks(st) : ~st[p].deleted}

\* all_objects / with_deleted()
AllObjects(st) == Pks(st)

\* only_deleted()
OnlyDeleted(st) == {p \in Pks(st) : st[p].deleted}

\* variant: the probe looks at every row, soft-deleted ones included
SlugTakenAnyRow(st, slug, pk) == \E p \in AllObjects(st) : p # pk /\ st[p].slug = slug

\* Model.objects.filter(slug=slug).exclude(pk=self.pk).exists()
SlugTaken(st, slug, pk) == \E p \in Objects(st) : p # pk /\ st[p].slug = slug

\* the while loop of save(): first free candidate among base, base-1, base-2, ...
RECURSIVE Probe(_, _, _, _)
Probe(st, base, pk, counter) ==
    LET slug == IF counter = 0 THEN base ELSE Suffixed(base, counter)
    IN IF SlugTaken(st, slug, pk) THEN Probe(st, base, pk, counter + 1) ELSE slug

\* how many times the while condition of save() is evaluated, the last
\* (failing) evaluation included; counter - 1 is the suffix then assigned
RECURSIVE ProbeCount(_, _, _, _)
ProbeCount(st, base, pk, counter) ==
    LET slug == IF counter = 0 THEN base ELSE Suffixed(base, counter)
    IN IF SlugTaken(st, slug, pk) THEN ProbeCount(st, base, pk, counter + 1)
       ELSE counter + 1

\* variant: the slug is generated only while the row has none
GenSlugOnlyWhenEmpty(k, st, pk, rec) ==
    IF ~HasSlug(k) THEN rec.slug
    ELSE IF rec.slug = <<>>
         THEN Probe(st, slugify(rec.name), pk, 0)
         ELSE rec.slug

\* the slug save() assigns: regenerated whenever `not self.slug or self.name`
GenSlug(k, st, pk, rec) ==
    IF ~HasSlug(k) THEN rec.slug
    ELSE IF rec.slug = <<>> \/ rec.name # <<>>
         THEN Probe(st, slugify(rec.name), pk, 0)
         ELSE rec.slug

\* variant: the slug column is declared without unique=True
NoSlugConstraint(k, st, pk, slug) == FALSE

\* unique=True on the slug column: the database rejects a row whose slug is
\* held by any other row, soft-deleted ones included
SlugUniqueViolation(k, st, pk, slug) ==
    HasSlug(k) /\ \E p \in AllObjects(st) : p # pk /\ st[p].slug = slug

\* variant: save() keeps the slug the instance already carries
SaveGivenSlug(k, st, pk, rec) ==
    LET slug == IF rec.slug # <<>> THEN rec.slug ELSE GenSlug(k, st, pk, rec)
        row  == [rec EXCEPT !.slug = slug]
    IN IF SlugUniqueViolation(k, st, pk, slug)
       THEN [ok |-> FALSE, store |-> st]
       ELSE IF pk = NoPk
            THEN [ok |-> TRUE, store |-> Append(st, row)]
            ELSE [ok |-> TRUE, store |-> [st EXCEPT ![pk] = row]]

\* Model.save(): result is [ok, store]; ok = FALSE stands for IntegrityError,
\* in which case nothing is written
Save(k, st, pk, rec) ==
    LET slug == GenSlug(k, st, pk, rec)
        row  == [rec EXCEPT !.slug = slug]
    IN IF SlugUniqueViolation(k, st, pk, slug)
       THEN [ok |-> FALSE, store |-> st]
       ELSE IF pk = NoPk
            THEN [ok |-> TRUE, store |-> Append(st, row)]
            ELSE [ok |-> TRUE, store |-> [st EXCEPT ![pk] = row]]

\* variant: delete() stamps deleted_at and leaves the flags alone
DeleteRecKeepsFlags(k, rec) == [rec EXCEPT !.deleted = TRUE]

\* Model.delete(): soft delete
DeleteRec(k, rec) ==
    [rec EXCEPT !.deleted = TRUE,
                !.active = IF HasActive(k) THEN FALSE ELSE @,
                !.publicado = IF HasPublicado(k) THEN FALSE ELSE @]

\* variant: restore() clears deleted_at and leaves the active flag alone
RestoreRecKeepsFlags(k, rec) == [rec EXCEPT !.deleted = FALSE]

\* Model.restore()
RestoreRec(k, rec) ==
    [rec EXCEPT !.deleted = FALSE,
                !.active = IF HasActive(k) THEN TRUE ELSE @]

\* placeholder where no row is meant
NoRec == [name |-> <<>>, slug |-> <<>>, deleted |-> FALSE, active |-> FALSE, publicado |-> FALSE]

\* state of the addressed row when the request arrives
Was(st, pk) == IF pk \notin Pks(st) THEN "missing"
               ELSE IF st[pk].deleted THEN "deleted" ELSE "live"

\* the request just answered: operation, addressed pk, HTTP status, the
\* state the addressed row was in, and (for a successful soft delete) the
\* row as it was before
Resp(op, pk, status, was, before) ==
    [op |-> op, pk |-> pk, status |-> status, was |-> was, before |-> before]

\* every table empty, no request served yet
InitTables ==
    /\ store = <<>>
    /\ last = Resp("none", NoPk, 0, "missing", NoRec)
    /\ mark = 0
    /\ steps = 0
    /\ page = {}
    /\ race = [c \in 1..MaxClients |-> [pc |-> "idle", row |-> NoRec, status |-> 0]]
    /\ parents = [t \in {"Attribute", "Category", "Brand"} |-> <<>>]
    /\ rel = <<>>
    /\ assoc = [rows |-> <<>>, seq |-> 0]
    /\ precios = <<>>

Init ==
    /\ kind \in Kinds
    /\ InitTables

\* ---------------------------------------------------------------- API requests
Flag == {"absent", "true", "false"}

FlagValue(f, default) == IF f = "absent" THEN default ELSE f = "true"

\* serializer validate(): name required on create, unique among visible rows
NameClash(k, st, name, pk) ==
    NameUnique(k) /\ \E p \in Objects(st) : p # pk /\ IExact(st[p].name, name)

\* POST create
Create(name, active, publicado) ==
    /\ Len(store) < MaxRecords
    /\ LET rec == [name |-> name, slug |-> <<>>, deleted |-> FALSE,
                   active |-> IF HasActive(kind) THEN FlagValue(active, TRUE) ELSE FALSE,
                   publicado |-> IF HasPublicado(kind) THEN FlagValue(publicado, FALSE) ELSE FALSE]
           res == Save(kind, store, NoPk, rec)
       IN IF name = Absent \/ NameClash(kind, store, name, NoPk)
          THEN /\ store' = store
               /\ last' = Resp("create", NoPk, 400, "missing", NoRec)
          ELSE IF ~res.ok
               THEN /\ store' = store
                    /\ last' = Resp("create", NoPk, 500, "missing", NoRec)
               ELSE /\ store' = res.store
                    /\ last' = Resp("create", Len(res.store), 201, "missing", NoRec)
    /\ steps' = steps + 1
    /\ UNCHANGED <<kind, mark>>

\* ---------------------------------------------------------------- overlapping creates
Clients == 1..MaxClients

\* rows that clients have probed a slug for and not yet inserted
Probed == {c \in Clients : race[c].pc = "probed"}

\* first half of a create served while other requests are running:
\* serializer.is_valid() and the slug probe of save(), both reading the
\* table as it is now
CreateProbe(c, name, active, publicado) ==
    /\ race[c].pc # "probed"
    /\ Len(store) + Cardinality(Probed) < MaxRecords
    /\ LET rec == [name |-> name, slug |-> <<>>, deleted |-> FALSE,
                   active |-> IF HasActive(kind) THEN FlagValue(active, TRUE) ELSE FALSE,
                   publicado |-> IF HasPublicado(kind) THEN FlagValue(publicado, FALSE) ELSE FALSE]
       IN IF name = Absent \/ NameClash(kind, store, name, NoPk)
          THEN /\ race' = [race EXCEPT ![c] = [pc |-> "done", row |-> NoRec, status |-> 400]]
               /\ last' = Resp("create", NoPk, 400, "missing", NoRec)
          ELSE /\ race' = [race EXCEPT ![c] =
                              [pc |-> "probed",
                               row |-> [rec EXCEPT !.slug = GenSlug(kind, store, NoPk, rec)],
                               status |-> 0]]
               /\ last' = last
    /\ steps' = steps + 1
    /\ UNCHANGED <<kind, store, mark, page>>

\* second half: super().save() sends the INSERT; the unique index decides,
\* and the view turns an IntegrityError into its DatabaseError answer
CreateInsert(c) ==
    /\ race[c].pc = "probed"
    /\ IF SlugUniqueViolation(kind, store, NoPk, race[c].row.slug)
       THEN /\ store' = store
            /\ race' = [race EXCEPT ![c] = [pc |-> "done", row |-> @.row, status |-> 500]]
            /\ last' = Resp("create", NoPk, 500, "missing", NoRec)
       ELSE /\ store' = Append(store, race[c].row)
            /\ race' = [race EXCEPT ![c] = [pc |-> "done", row |-> @.row, status |-> 201]]
            /\ last' = Resp("create", Len(store) + 1, 201, "missing", NoRec)
    /\ steps' = steps + 1
    /\ UNCHANGED <<kind, mark, page>>

\* get_object_or_404(Model, pk=pk): looks the row up through the default
\* manager, so a soft-deleted row is not found
Found(st, pk) == pk \in Objects(st)

\* get_object_or_404(Model.all_objects, pk=pk)
FoundAll(st, pk) == pk \in AllObjects(st)

\* Http404 raised inside the view's try block is caught by its
\* `except Exception` handler, which answers 500
NotFoundStatus == 500

\* field values after the serializer applied the payload to the instance;
\* on PUT an omitted field with a declared default takes that default
Patched(k, method, rec, name, active, publicado) ==
    [rec EXCEPT
        !.name = IF name = Absent THEN @ ELSE name,
        !.active = IF ~HasActive(k) THEN @
                   ELSE IF active # "absent" THEN active = "true"
                   ELSE IF k = "Producto" /\ method = "PUT" THEN TRUE ELSE @,
        !.publicado = IF ~HasPublicado(k) THEN @
                      ELSE IF publicado # "absent" THEN publicado = "true"
                      ELSE IF method = "PUT" THEN FALSE ELSE @]

\* variant: the view looks the row up through all_objects and does not
\* test deleted_at
UpdateAnyRow(method, pk, name, active, publicado) ==
    /\ IF ~FoundAll(store, pk)
       THEN /\ store' = store
            /\ last' = Resp("update", pk, NotFoundStatus, Was(store, pk), NoRec)
       ELSE IF name # Absent /\ NameClash(kind, store, name, pk)
       THEN /\ store' = store
            /\ last' = Resp("update", pk, 400, Was(store, pk), NoRec)
       ELSE LET res == Save(kind, store, pk,
                            Patched(kind, method, store[pk], name, active, publicado))
            IN /\ store' = res.store
               /\ last' = Resp("update", pk, IF res.ok THEN 200 ELSE 500, Was(store, pk), NoRec)
    /\ mark' = Len(store)
    /\ steps' = steps + 1
    /\ UNCHANGED kind

\* PUT / PATCH update
Update(method, pk, name, active, publicado) ==
    /\ IF ~Found(store, pk)
       THEN /\ store' = store
            /\ last' = Resp("update", pk, NotFoundStatus, Was(store, pk), NoRec)
       ELSE IF store[pk].deleted
       THEN /\ store' = store
            /\ last' = Resp("update", pk, 400, Was(store, pk), NoRec)
       ELSE IF name # Absent /\ NameClash(kind, store, name, pk)
       THEN /\ store' = store
            /\ last' = Resp("update", pk, 400, Was(store, pk), NoRec)
       ELSE LET res == Save(kind, store, pk,
                            Patched(kind, method, store[pk], name, active, publicado))
            IN /\ store' = res.store
               /\ last' = Resp("update", pk, IF res.ok THEN 200 ELSE 500, Was(store, pk), NoRec)
    /\ mark' = Len(store)
    /\ steps' = steps + 1
    /\ UNCHANGED kind

\* variant: the view removes the row (hard_delete) instead of stamping it
DeleteHard(pk) ==
    /\ IF ~Found(store, pk)
       THEN /\ store' = store
            /\ last' = Resp("delete", pk, NotFoundStatus, Was(store, pk), NoRec)
       ELSE /\ store' = [p \in Pks(store) \ {pk} |-> store[p]]
            /\ last' = Resp("delete", pk, DeleteOkStatus(kind), "live", store[pk])
    /\ mark' = Len(store)
    /\ steps' = steps + 1
    /\ UNCHANGED kind

\* DELETE: soft delete
Delete(pk) ==
    /\ IF ~Found(store, pk)
       THEN /\ store' = store
            /\ last' = Resp("delete", pk, NotFoundStatus, Was(store, pk), NoRec)
       ELSE IF store[pk].deleted
       THEN /\ store' = store
            /\ last' = Resp("delete", pk, 400, Was(store, pk), NoRec)
       ELSE LET res == Save(kind, store, pk, DeleteRec(kind, store[pk]))
            IN /\ store' = res.store
               /\ last' = Resp("delete", pk, IF res.ok THEN DeleteOkStatus(kind) ELSE 500, "live",
                               IF res.ok THEN store[pk] ELSE NoRec)
    /\ mark' = Len(store)
    /\ steps' = steps + 1
    /\ UNCHANGED kind

\* variant: the view restores whatever row it loaded, deleted or not
RestoreAnyRow(pk) ==
    /\ IF ~FoundAll(store, pk)
       THEN /\ store' = store
            /\ last' = Resp("restore", pk, NotFoundStatus, Was(store, pk), NoRec)
       ELSE LET res == Save(kind, store, pk, RestoreRec(kind, store[pk]))
            IN /\ store' = res.store
               /\ last' = Resp("restore", pk, IF res.ok THEN 200 ELSE 500, Was(store, pk), NoRec)
    /\ mark' = Len(store)
    /\ steps' = steps + 1
    /\ UNCHANGED kind

\* POST restore
Restore(pk) ==
    /\ IF ~FoundAll(store, pk)
       THEN /\ store' = store
            /\ last' = Resp("restore", pk, NotFoundStatus, Was(store, pk), NoRec)
       ELSE IF ~store[pk].deleted
       THEN /\ store' = store
            /\ last' = Resp("restore", pk, 400, Was(store, pk), NoRec)
       ELSE LET res == Save(kind, store, pk, RestoreRec(kind, store[pk]))
            IN /\ store' = res.store
               /\ last' = Resp("restore", pk, IF res.ok THEN 200 ELSE 500, Was(store, pk), NoRec)
    /\ mark' = Len(store)
    /\ steps' = steps + 1
    /\ UNCHANGED kind

\* GET one record
Retrieve(pk) ==
    /\ IF ~Found(store, pk)
       THEN /\ last' = Resp("retrieve", pk, NotFoundStatus, Was(store, pk), NoRec)
            /\ page' = {}
       ELSE /\ last' = Resp("retrieve", pk, 200, Was(store, pk), NoRec)
            /\ page' = {pk}
    /\ mark' = Len(store)
    /\ steps' = steps + 1
    /\ UNCHANGED <<kind, store>>

\* variant: the list starts from all_objects
ListAllRows ==
    /\ last' = Resp("list", NoPk, 200, "missing", NoRec)
    /\ page' = AllObjects(store)
    /\ mark' = Len(store)
    /\ steps' = steps + 1
    /\ UNCHANGED <<kind, store>>

\* GET list without query parameters: Model.objects.all(), first page (the
\* default page size of 10 holds every row of a store this small)
List ==
    /\ last' = Resp("list", NoPk, 200, "missing", NoRec)
    /\ page' = Objects(store)
    /\ mark' = Len(store)
    /\ steps' = steps + 1
    /\ UNCHANGED <<kind, store>>

\* ---------------------------------------------------------------- admin bulk actions
\* queryset.filter(deleted_at__isnull=True).update(field=value): one UPDATE
\* statement, model save() is not called
BulkSet(st, sel, field, value) ==
    [p \in Pks(st) |->
        IF p \in sel /\ ~st[p].deleted
        THEN [st[p] EXCEPT ![field] = value]
        ELSE st[p]]

AdminActivate(sel) ==
    /\ HasActive(kind)
    /\ store' = BulkSet(store, sel, "active", TRUE)
    /\ last' = Resp("admin_activate", NoPk, 200, "missing", NoRec)
    /\ mark' = Len(store)
    /\ steps' = steps + 1
    /\ UNCHANGED kind

AdminDeactivate(sel) ==
    /\ HasActive(kind)
    /\ store' = BulkSet(store, sel, "active", FALSE)
    /\ last' = Resp("admin_deactivate", NoPk, 200, "missing", NoRec)
    /\ mark' = Len(store)
    /\ steps' = steps + 1
    /\ UNCHANGED kind

\* publish_productos: update(publicado=True, activo=True)
AdminPublish(sel) ==
    /\ HasPublicado(kind)
    /\ store' = BulkSet(BulkSet(store, sel, "publicado", TRUE), sel, "active", TRUE)
    /\ last' = Resp("admin_publish", NoPk, 200, "missing", NoRec)
    /\ mark' = Len(store)
    /\ steps' = steps + 1
    /\ UNCHANGED kind

AdminUnpublish(sel) ==
    /\ HasPublicado(kind)
    /\ store' = BulkSet(store, sel, "publicado", FALSE)
    /\ last' = Resp("admin_unpublish", NoPk, 200, "missing", NoRec)
    /\ mark' = Len(store)
    /\ steps' = steps + 1
    /\ UNCHANGED kind

\* `for obj in queryset: obj.delete()` / `obj.restore()`: rows are saved one
\* by one in the order the change list hands them over; an IntegrityError
\* ends the loop and keeps the rows already saved
RECURSIVE BulkSave(_, _, _, _)
BulkSave(k, st, order, toDeleted) ==
    IF order = <<>> THEN [ok |-> TRUE, store |-> st]
    ELSE LET p == Head(order)
         IN IF st[p].deleted = toDeleted
            THEN BulkSave(k, st, Tail(order), toDeleted)
            ELSE LET res == Save(k, st, p,
                                 IF toDeleted THEN DeleteRec(k, st[p])
                                              ELSE RestoreRec(k, st[p]))
                 IN IF res.ok
                    THEN BulkSave(k, res.store, Tail(order), toDeleted)
                    ELSE [ok |-> FALSE, store |-> st]

\* the selected rows in the order of the change list
Orders(st) ==
    {o \in UNION {[1..n -> Pks(st)] : n \in 0..Len(st)} :
        \A i, j \in DOMAIN o : i # j => o[i] # o[j]}

AdminSoftDelete(order) ==
    /\ LET res == BulkSave(kind, store, order, TRUE)
       IN /\ store' = res.store
          /\ last' = Resp("admin_soft_delete", NoPk, IF res.ok THEN 200 ELSE 500, "missing", NoRec)
    /\ mark' = Len(store)
    /\ steps' = steps + 1
    /\ UNCHANGED kind

AdminRestore(order) ==
    /\ LET res == BulkSave(kind, store, order, FALSE)
       IN /\ store' = res.store
          /\ last' = Resp("admin_restore", NoPk, IF res.ok THEN 200 ELSE 500, "missing", NoRec)
    /\ mark' = Len(store)
    /\ steps' = steps + 1
    /\ UNCHANGED kind

\* ---------------------------------------------------------------- foreign keys and unique keys
\* entity types whose rows point at a parent: AttributeValue.atributo,
\* Subcategory.category, Producto.categoria
HasParent(k) == k \in {"AttributeValue", "Subcategory", "Producto"}

\* Producto.marca
HasSecondParent(k) == k = "Producto"

ParentArgs == 1..MaxParents

\* the table a row's first foreign key points into
FirstParent(k) == IF k = "AttributeValue" THEN "Attribute" ELSE "Category"

\* the table of the second foreign key: Producto.marca,
\* CategoriaAtributo.atributo
SecondParent(k) == IF k = "Producto" THEN "Brand" ELSE "Attribute"

\* the parent's model has an active flag (Attribute has none)
ParentHasActive(t) == t # "Attribute"

\* an argument the body leaves out; as a stored value, NULL
NoArg == -1

\* the unique key of a row is orden / order (an integer, 0 when left out)
\* or, for Producto, sku_base: NULL when left out, 0 standing for the
\* blank string and positive numbers for SKU texts
DefaultKey(k) == IF k = "Producto" THEN NoArg ELSE 0

\* Parent.objects.filter(pk=id).exists(): the default manager of the parent
ParentVisible(ps, t, id) == id \in DOMAIN ps[t] /\ ~ps[t][id].deleted

\* variant: the parent is looked up among all rows, soft-deleted included
ParentAcceptedAnyRow(k, ps, t, id) ==
    /\ id \in DOMAIN ps[t]
    /\ k = "Producto" => ps[t][id].active

\* the parent reference passes validation: it names a visible row and, for
\* Producto (validate_categoria / validate_marca), an active one
ParentAccepted(k, ps, t, id) ==
    /\ ParentVisible(ps, t, id)
    /\ k = "Producto" => ps[t][id].active

\* ProductoCreateUpdateSerializer.validate: a non-blank sku_base equal to
\* that of another visible product
SkuClash(k, st, rl, pk, key) ==
    /\ k = "Producto"
    /\ key > 0
    /\ \E p \in Objects(st) : p # pk /\ rl[p].key = key

\* what the serializers reject in the relation fields of a body d: a
\* missing parent on create, a parent that does not pass, a taken SKU
RelInvalid(k, st, rl, ps, pk, d) ==
    \/ pk = NoPk /\ d.parent = NoArg
    \/ d.parent # NoArg /\ ~ParentAccepted(k, ps, FirstParent(k), d.parent)
    \/ HasSecondParent(k) /\ d.parent2 # NoArg
                          /\ ~ParentAccepted(k, ps, SecondParent(k), d.parent2)
    \/ d.key # NoArg /\ SkuClash(k, st, rl, pk, d.key)

\* the relation columns the row gets from a body d (cur: what it has now)
RelRow(k, cur, d) ==
    [parent  |-> IF d.parent = NoArg THEN cur.parent ELSE d.parent,
     parent2 |-> IF HasSecondParent(k) /\ d.parent2 # NoArg THEN d.parent2 ELSE cur.parent2,
     key     |-> IF d.key = NoArg THEN cur.key ELSE d.key]

\* relation columns of a row not yet stored
NewRel(k) == [parent |-> NoArg, parent2 |-> NoArg, key |-> DefaultKey(k)]

\* unique=True on sku_base, unique_together on (atributo, orden) and on
\* (category, order): the database compares with every other row,
\* soft-deleted ones included
KeyViolation(k, st, rl, pk, row) ==
    IF k = "Producto"
    THEN row.key # NoArg /\ \E p \in AllObjects(st) : p # pk /\ rl[p].key = row.key
    ELSE \E p \in AllObjects(st) :
            p # pk /\ rl[p].parent = row.parent /\ rl[p].key = row.key

\* POST create with relation fields in the body
CreateRel(d) ==
    LET row == RelRow(kind, NewRel(kind), d)
    IN /\ Len(store) < MaxRelRecords
       /\ IF d.name = Absent \/ NameClash(kind, store, d.name, NoPk)
             \/ RelInvalid(kind, store, rel, parents, NoPk, d)
          THEN /\ store' = store
               /\ last' = Resp("create", NoPk, 400, "missing", NoRec)
               /\ steps' = steps + 1
               /\ UNCHANGED <<kind, mark, rel>>
          ELSE IF KeyViolation(kind, store, rel, NoPk, row)
          THEN /\ store' = store
               /\ last' = Resp("create", NoPk, 500, "missing", NoRec)
               /\ steps' = steps + 1
               /\ UNCHANGED <<kind, mark, rel>>
          ELSE /\ Create(d.name, d.active, d.publicado)
               /\ rel' = IF last'.status = 201 THEN Append(rel, row) ELSE rel

\* PUT / PATCH update with relation fields in the body
UpdateRel(method, pk, d) ==
    IF ~Found(store, pk) \/ store[pk].deleted
    THEN /\ Update(method, pk, d.name, d.active, d.publicado)
         /\ rel' = rel
    ELSE LET row == RelRow(kind, rel[pk], d)
         IN IF (d.name # Absent /\ NameClash(kind, store, d.name, pk))
               \/ RelInvalid(kind, store, rel, parents, pk, d)
            THEN /\ store' = store
                 /\ last' = Resp("update", pk, 400, Was(store, pk), NoRec)
                 /\ mark' = Len(store)
                 /\ steps' = steps + 1
                 /\ UNCHANGED <<kind, rel>>
            ELSE IF KeyViolation(kind, store, rel, pk, row)
            THEN /\ store' = store
                 /\ last' = Resp("update", pk, 500, Was(store, pk), NoRec)
                 /\ mark' = Len(store)
                 /\ steps' = steps + 1
                 /\ UNCHANGED <<kind, rel>>
            ELSE /\ Update(method, pk, d.name, d.active, d.publicado)
                 /\ rel' = IF last'.status = 200 THEN [rel EXCEPT ![pk] = row] ELSE rel

\* related_name of Producto.categoria and of Producto.marca: the name of
\* the reverse accessor on Category and on Brand
related_name == "productos"

\* rows of the Producto table that point at row id of parent table t
Referencing(st, rl, t, id) ==
    {p \in DOMAIN st : IF t = "Brand" THEN rl[p].parent2 = id ELSE rl[p].parent = id}

\* Category.products_count / Brand.products_count:
\* self.products.filter(is_active=True).count() if hasattr(self, 'products') else 0
products_count(st, rl, t, id) ==
    IF related_name = "products"
    THEN Cardinality({p \in Referencing(st, rl, t, id) : ~st[p].deleted /\ st[p].active})
    ELSE 0

\* requests on the parent's own endpoints, reduced to their effect on the
\* parent's deleted_at and is_active
ParentCreate(t) ==
    /\ Len(parents[t]) < MaxParents
    /\ parents' = [parents EXCEPT ![t] = Append(@, [deleted |-> FALSE, active |-> TRUE])]
    /\ last' = Resp("parent_create", Len(parents[t]) + 1, 201, "missing", NoRec)

ParentSetActive(t, id, value) ==
    /\ ParentHasActive(t)
    /\ IF ParentVisible(parents, t, id)
       THEN /\ parents' = [parents EXCEPT ![t][id].active = value]
            /\ last' = Resp("parent_update", id, 200, "live", NoRec)
       ELSE /\ parents' = parents
            /\ last' = Resp("parent_update", id, NotFoundStatus, "missing", NoRec)

ParentDelete(t, id) ==
    IF ParentVisible(parents, t, id)
    THEN /\ parents' = [parents EXCEPT ![t][id] = [deleted |-> TRUE, active |-> FALSE]]
         /\ last' = Resp("parent_delete", id, 200, "live", NoRec)
    ELSE /\ parents' = parents
         /\ last' = Resp("parent_delete", id, NotFoundStatus, "missing", NoRec)

ParentRestore(t, id) ==
    IF id \notin DOMAIN parents[t]
    THEN /\ parents' = parents
         /\ last' = Resp("parent_restore", id, NotFoundStatus, "missing", NoRec)
    ELSE IF ~parents[t][id].deleted
    THEN /\ parents' = parents
         /\ last' = Resp("parent_restore", id, 400, "live", NoRec)
    ELSE /\ parents' = [parents EXCEPT ![t][id] = [deleted |-> FALSE, active |-> TRUE]]
         /\ last' = Resp("parent_restore", id, 200, "deleted", NoRec)

\* ---------------------------------------------------------------- CategoriaAtributo
\* rows per bulk-create body
MaxBulk == 2

\* CategoriaAtributo.objects.filter(categoria_id=c, atributo_id=a)
\*     .exclude(pk=pk).exists()
PairStored(asc, pk, c, a) ==
    \E p \in DOMAIN asc.rows :
        p # pk /\ asc.rows[p].categoria = c /\ asc.rows[p].atributo = a

\* the pair a body (c, a) gives the row pk (NoPk: a new row)
PairOf(asc, pk, c, a) ==
    [categoria |-> IF c = NoArg /\ pk # NoPk THEN asc.rows[pk].categoria ELSE c,
     atributo  |-> IF a = NoArg /\ pk # NoPk THEN asc.rows[pk].atributo ELSE a]

\* variant: validate() does not compare the pair with the stored ones
AssocInvalidNoPairCheck(asc, ps, pk, c, a) ==
    \/ pk = NoPk /\ (c = NoArg \/ a = NoArg)
    \/ c # NoArg /\ ~ParentAccepted("CategoriaAtributo", ps, "Category", c)
    \/ a # NoArg /\ ~ParentAccepted("CategoriaAtributo", ps, "Attribute", a)

\* CategoriaAtributoCreateUpdateSerializer.validate: both ids required on
\* create, each id given must name a visible parent, and the resulting
\* pair must not be stored in another row
AssocInvalid(asc, ps, pk, c, a) ==
    \/ pk = NoPk /\ (c = NoArg \/ a = NoArg)
    \/ c # NoArg /\ ~ParentAccepted("CategoriaAtributo", ps, "Category", c)
    \/ a # NoArg /\ ~ParentAccepted("CategoriaAtributo", ps, "Attribute", a)
    \/ PairStored(asc, pk, PairOf(asc, pk, c, a).categoria, PairOf(asc, pk, c, a).atributo)

\* unique_together = [['categoria', 'atributo']]
AssocViolation(asc, pk, pair) ==
    \E p \in DOMAIN asc.rows : p # pk /\ asc.rows[p] = pair

\* INSERT: the row gets the next primary key of the sequence
AssocInsert(asc, pair) ==
    [rows |-> [p \in DOMAIN asc.rows \cup {asc.seq + 1} |->
                  IF p = asc.seq + 1 THEN pair ELSE asc.rows[p]],
     seq  |-> asc.seq + 1]

\* serializer.is_valid() and serializer.save() for one body: the table
\* afterwards and whether a row was stored ("created"), the body was
\* refused ("invalid") or the INSERT failed ("error")
AssocSaveNew(asc, ps, c, a) ==
    IF AssocInvalid(asc, ps, NoPk, c, a)
    THEN [assoc |-> asc, result |-> "invalid"]
    ELSE IF AssocViolation(asc, NoPk, PairOf(asc, NoPk, c, a))
    THEN [assoc |-> asc, result |-> "error"]
    ELSE [assoc |-> AssocInsert(asc, PairOf(asc, NoPk, c, a)), result |-> "created"]

\* POST create
AssocCreate(c, a) ==
    /\ Cardinality(DOMAIN assoc.rows) < MaxRelRecords
    /\ LET res == AssocSaveNew(assoc, parents, c, a)
       IN /\ assoc' = res.assoc
          /\ last' = Resp("create",
                          IF res.result = "created" THEN res.assoc.seq ELSE NoPk,
                          CASE res.result = "created" -> 201
                            [] res.result = "invalid" -> 400
                            [] OTHER -> 500,
                          "missing", NoRec)

\* PUT / PATCH update
AssocUpdate(method, pk, c, a) ==
    IF pk \notin DOMAIN assoc.rows
    THEN /\ assoc' = assoc
         /\ last' = Resp("update", pk, NotFoundStatus, "missing", NoRec)
    ELSE IF AssocInvalid(assoc, parents, pk, c, a)
    THEN /\ assoc' = assoc
         /\ last' = Resp("update", pk, 400, "live", NoRec)
    ELSE IF AssocViolation(assoc, pk, PairOf(assoc, pk, c, a))
    THEN /\ assoc' = assoc
         /\ last' = Resp("update", pk, 500, "live", NoRec)
    ELSE /\ assoc' = [assoc EXCEPT !.rows[pk] = PairOf(assoc, pk, c, a)]
         /\ last' = Resp("update", pk, 200, "live", NoRec)

\* DELETE: the row is removed for good
AssocDelete(pk) ==
    IF pk \notin DOMAIN assoc.rows
    THEN /\ assoc' = assoc
         /\ last' = Resp("delete", pk, NotFoundStatus, "missing", NoRec)
    ELSE /\ assoc' = [assoc EXCEPT !.rows = [p \in DOMAIN assoc.rows \ {pk} |-> assoc.rows[p]]]
         /\ last' = Resp("delete", pk, 200, "live", NoRec)

\* the loop of bulk_create_categoria_atributos: every item goes through
\* its own serializer against the table as the items before left it
RECURSIVE AssocBulk(_, _, _)
AssocBulk(asc, ps, items) ==
    IF items = <<>> THEN [assoc |-> asc, created |-> 0, errors |-> 0]
    ELSE LET one  == AssocSaveNew(asc, ps, Head(items)[1], Head(items)[2])
             rest == AssocBulk(one.assoc, ps, Tail(items))
         IN [assoc   |-> rest.assoc,
             created |-> rest.created + (IF one.result = "created" THEN 1 ELSE 0),
             errors  |-> rest.errors + (IF one.result = "created" THEN 0 ELSE 1)]

\* POST bulk-create with a list of bodies
AssocBulkCreate(items) ==
    /\ Cardinality(DOMAIN assoc.rows) + Len(items) <= MaxRelRecords
    /\ LET res == AssocBulk(assoc, parents, items)
       IN /\ assoc' = res.assoc
          /\ last' = Resp("bulk_create", NoPk,
                          IF res.created > 0 /\ res.errors = 0 THEN 201
                          ELSE IF res.created > 0 THEN 207
                          ELSE 400,
                          "missing", NoRec)

\* lists a bulk-create body may carry: up to MaxBulk pairs of the first
\* two parent ids
BulkItems ==
    UNION {[1..n -> (1..2) \X (1..2)] : n \in 0..MaxBulk}

\* parent tables the entity type points into
ParentTables(k) ==
    IF HasSecondParent(k) \/ k = "CategoriaAtributo"
    THEN {FirstParent(k), SecondParent(k)}
    ELSE {FirstParent(k)}


\* the relation fields a body may carry next to the parent a: a key, or
\* for Producto a marca, or neither
RelFields(k, a) ==
    {[parent |-> a, parent2 |-> NoArg, key |-> c] : c \in {NoArg, 0, 1}}
    \cup {[parent |-> a, parent2 |-> b, key |-> NoArg] :
             b \in IF HasSecondParent(k) THEN ParentArgs ELSE {}}

\* bodies of updates that carry at most one relation field and nothing else
RelUpdatePayloads(k) ==
    {[name |-> Absent, active |-> "absent", publicado |-> "absent",
      parent |-> f.parent, parent2 |-> f.parent2, key |-> f.key] :
        f \in {[parent |-> a, parent2 |-> NoArg, key |-> NoArg] : a \in ParentArgs}
               \cup RelFields(k, NoArg)}

\* bodies of creates: one of two names (or none), a parent (or none) and
\* the relation fields that go with it
RelPayloads(k) ==
    {[name |-> n, active |-> "absent", publicado |-> "absent",
      parent |-> f.parent, parent2 |-> f.parent2, key |-> f.key] :
        n \in {<<"x">>, <<"y">>, Absent},
        f \in UNION {RelFields(k, a) : a \in ParentArgs \cup {NoArg}}}

PkArgs == 1..MaxRecords

RelPkArgs == 1..MaxRelRecords

\* flag values a request may carry for the entity type
ActiveArgs(k) == IF HasActive(k) THEN Flag ELSE {"absent"}

PublicadoArgs(k) == IF HasPublicado(k) THEN Flag ELSE {"absent"}

\* names tried per entity type: all of them where the serializer compares
\* names, three where only the slug depends on the name, two where nothing
\* does
NameArgs(k) ==
    IF NameUnique(k) THEN Names
    ELSE IF HasSlug(k) THEN {<<"x">>, <<"X">>, <<"y">>}
    ELSE {<<"x">>, <<"y">>}

\* request bodies: a create carries a name (or none); an update changes the
\* name, one of the flags, or nothing.  Parents, ordering values and SKUs a
\* body carries are taken to be valid and unused, and no body sets a price.
CreatePayloads(k) ==
    {[name |-> n, active |-> "absent", publicado |-> "absent"] : n \in NameArgs(k) \cup {Absent}}

UpdatePayloads(k) ==
    {[name |-> n, active |-> "absent", publicado |-> "absent"] : n \in NameArgs(k) \cup {Absent}}
    \cup {[name |-> Absent, active |-> a, publicado |-> "absent"] : a \in ActiveArgs(k)}
    \cup {[name |-> Absent, active |-> "absent", publicado |-> p] : p \in PublicadoArgs(k)}

\* ---------------------------------------------------------------- listing with a boolean filter
\* requests per run that ends in filtered listings
MaxFilterOps == 3

\* values of the query parameter: left out, empty, and the four
\* spellings the interface documents
FilterArgs == {"absent", "", "1", "0", "true", "false"}

\* the boolean the list view makes of the parameter: AttributeValue
\* accepts 'true' in any case and '1'; the other views compare with '1'
\* only
FilterBool(k, param) ==
    IF k = "AttributeValue" THEN param = "true" \/ param = "1"
    ELSE param = "1"

\* GET list with ?status= / ?activo=
ListFiltered(param) ==
    /\ HasActive(kind)
    /\ page' = IF param = "absent" \/ param = ""
               THEN Objects(store)
               ELSE {p \in Objects(store) : store[p].active = FilterBool(kind, param)}
    /\ last' = Resp("list_filtered", NoPk, 200, "missing", NoRec)
    /\ mark' = Len(store)
    /\ steps' = steps + 1
    /\ UNCHANGED <<kind, store>>

\* creates, updates of the active flag and soft deletes, then listings
NextFilter ==
    /\ steps < MaxFilterOps
    /\ \/ /\ \/ \E d \in CreatePayloads(kind) : Create(d.name, d.active, d.publicado)
             \/ \E pk \in PkArgs, a \in ActiveArgs(kind) :
                   Update("PATCH", pk, Absent, a, "absent")
             \/ \E pk \in PkArgs : Delete(pk)
          /\ page' = {}
       \/ \E f \in FilterArgs : ListFiltered(f)
    /\ UNCHANGED <<race, parents, rel, assoc, precios>>

\* ---------------------------------------------------------------- bodies that carry a slug
\* requests per run whose bodies carry a slug
MaxSlugOps == 4

\* slugs a body carries: one no name of the pool normalizes to, and one
\* of the suffixed form
SlugArgs == {<<"z">>, <<"x", "-", "7">>}

\* POST create with `slug` in the body: the serializer passes it on to
\* Model.objects.create(), which calls save()
CreateSlug(name, slug) ==
    /\ Len(store) < MaxRecords
    /\ LET rec == [name |-> name, slug |-> slug, deleted |-> FALSE,
                   active |-> HasActive(kind), publicado |-> FALSE]
           res == Save(kind, store, NoPk, rec)
       IN IF name = Absent \/ NameClash(kind, store, name, NoPk)
          THEN /\ store' = store
               /\ last' = Resp("create", NoPk, 400, "missing", NoRec)
          ELSE IF ~res.ok
               THEN /\ store' = store
                    /\ last' = Resp("create", NoPk, 500, "missing", NoRec)
               ELSE /\ store' = res.store
                    /\ last' = Resp("create", Len(res.store), 201, "missing", NoRec)
    /\ steps' = steps + 1
    /\ UNCHANGED <<kind, mark>>

\* PUT / PATCH update with `slug` in the body: the serializer sets it on
\* the instance and calls save()
UpdateSlug(method, pk, name, slug) ==
    /\ IF ~Found(store, pk)
       THEN /\ store' = store
            /\ last' = Resp("update", pk, NotFoundStatus, Was(store, pk), NoRec)
       ELSE IF name # Absent /\ NameClash(kind, store, name, pk)
       THEN /\ store' = store
            /\ last' = Resp("update", pk, 400, Was(store, pk), NoRec)
       ELSE LET rec == [Patched(kind, method, store[pk], name, "absent", "absent")
                          EXCEPT !.slug = slug]
                res == Save(kind, store, pk, rec)
            IN /\ store' = res.store
               /\ last' = Resp("update", pk, IF res.ok THEN 200 ELSE 500, Was(store, pk), NoRec)
    /\ mark' = Len(store)
    /\ steps' = steps + 1
    /\ UNCHANGED kind

\* ---------------------------------------------------------------- Producto prices and stock
\* largest amount a body carries, largest stock, largest step of a stock
\* movement, rows and requests per run
MaxPrecio == 2

MaxStock == 2

MaxCantidad == 2

MaxPrecioRecords == 2

MaxPrecioOps == 3

\* NULL in a price column, or null in a body
NullPrecio == -1

\* the body leaves the field out
Omitted == -2

\* an amount below zero in a body
NegAmount == -3

\* Python truthiness of a Decimal or None: None and 0 are falsy
Truthy(v) == v # NullPrecio /\ v # 0

\* Producto.precio_final
precio_final(row) ==
    IF Truthy(row.precio_descuento) THEN row.precio_descuento ELSE row.precio_base

\* Producto.tiene_descuento raises TypeError when it compares a Decimal
\* with None; ProductoSerializer reads it for every response body
ResponseFails(row) == row.precio_descuento # NullPrecio /\ row.precio_base = NullPrecio

\* price and stock columns of a row not yet stored
NewPrecio == [precio_base |-> NullPrecio, precio_descuento |-> NullPrecio, stock_actual |-> 0]

\* ProductoCreateUpdateSerializer.validate on prices and stock; cur is
\* the instance (NewPrecio on create)
PrecioInvalid(cur, d) ==
    LET given == IF d.precio_base \in {Omitted, NullPrecio, 0}
                 THEN cur.precio_base ELSE d.precio_base
    IN \/ d.precio_base = NegAmount
       \/ d.precio_descuento = NegAmount
       \/ /\ d.precio_descuento \notin {Omitted, NullPrecio}
          /\ Truthy(given)
          /\ d.precio_descuento >= given
       \/ d.stock_actual = NegAmount

\* the columns after the serializer applied the body; stock_actual is
\* declared with default=0, which a create and a PUT apply when the body
\* leaves it out
PrecioRow(method, cur, d) ==
    [precio_base |-> IF d.precio_base = Omitted THEN cur.precio_base ELSE d.precio_base,
     precio_descuento |-> IF d.precio_descuento = Omitted THEN cur.precio_descuento
                          ELSE d.precio_descuento,
     stock_actual |-> IF d.stock_actual # Omitted THEN d.stock_actual
                      ELSE IF method = "PATCH" THEN cur.stock_actual ELSE 0]

\* create_producto: validate, save, then serialize the saved row for the
\* response body
CreatePrecio(d) ==
    /\ Len(store) < MaxPrecioRecords
    /\ LET rec == [name |-> d.name, slug |-> <<>>, deleted |-> FALSE,
                   active |-> TRUE, publicado |-> FALSE]
           res == Save(kind, store, NoPk, rec)
           row == PrecioRow("POST", NewPrecio, d)
       IN IF d.name = Absent \/ PrecioInvalid(NewPrecio, d)
          THEN /\ store' = store
               /\ precios' = precios
               /\ last' = Resp("create", NoPk, 400, "missing", NoRec)
          ELSE IF ~res.ok
          THEN /\ store' = store
               /\ precios' = precios
               /\ last' = Resp("create", NoPk, 500, "missing", NoRec)
          ELSE /\ store' = res.store
               /\ precios' = Append(precios, row)
               /\ last' = Resp("create", IF ResponseFails(row) THEN NoPk ELSE Len(res.store),
                               IF ResponseFails(row) THEN 500 ELSE 201, "missing", NoRec)
    /\ steps' = steps + 1
    /\ UNCHANGED <<kind, mark>>

\* update_producto: look up, validate, save, then serialize the saved row
UpdatePrecio(method, pk, d) ==
    /\ IF ~Found(store, pk)
       THEN /\ store' = store
            /\ precios' = precios
            /\ last' = Resp("update", pk, NotFoundStatus, Was(store, pk), NoRec)
       ELSE IF PrecioInvalid(precios[pk], d)
       THEN /\ store' = store
            /\ precios' = precios
            /\ last' = Resp("update", pk, 400, Was(store, pk), NoRec)
       ELSE LET res == Save(kind, store, pk,
                            Patched(kind, method, store[pk], d.name, "absent", "absent"))
                row == PrecioRow(method, precios[pk], d)
            IN IF ~res.ok
               THEN /\ store' = store
                    /\ precios' = precios
                    /\ last' = Resp("update", pk, 500, Was(store, pk), NoRec)
               ELSE /\ store' = res.store
                    /\ precios' = [precios EXCEPT ![pk] = row]
                    /\ last' = Resp("update", pk, IF ResponseFails(row) THEN 500 ELSE 200,
                                    Was(store, pk), NoRec)
    /\ mark' = Len(store)
    /\ steps' = steps + 1
    /\ UNCHANGED kind

\* variant: the movement is added without the floor at zero
actualizar_stock_no_floor(pk, cantidad) ==
    /\ pk \in Pks(store)
    /\ precios[pk].stock_actual + cantidad <= MaxStock
    /\ precios' = [precios EXCEPT ![pk].stock_actual = @ + cantidad]
    /\ last' = Resp("actualizar_stock", pk, 0, Was(store, pk), NoRec)
    /\ mark' = Len(store)
    /\ steps' = steps + 1
    /\ UNCHANGED <<kind, store>>

\* Producto.actualizar_stock(cantidad) on the instance pk; it saves with
\* update_fields=['stock_actual'], so no other column is written
actualizar_stock(pk, cantidad) ==
    /\ pk \in Pks(store)
    /\ precios[pk].stock_actual + cantidad <= MaxStock
    /\ precios' = [precios EXCEPT ![pk].stock_actual =
                      IF @ + cantidad < 0 THEN 0 ELSE @ + cantidad]
    /\ last' = Resp("actualizar_stock", pk, 0, Was(store, pk), NoRec)
    /\ mark' = Len(store)
    /\ steps' = steps + 1
    /\ UNCHANGED <<kind, store>>

\* values a body gives a price field
PrecioArgs == {Omitted, NullPrecio, NegAmount} \cup 0..MaxPrecio

\* stock movements
CantidadArgs == (-MaxCantidad..MaxCantidad) \ {0}

\* bodies of Producto creates and updates that carry prices or a stock; a
\* create also carries a name (or none)
PrecioFields ==
    {[precio_base |-> b, precio_descuento |-> c, stock_actual |-> Omitted] :
        b \in PrecioArgs, c \in PrecioArgs}
    \cup {[precio_base |-> Omitted, precio_descuento |-> Omitted, stock_actual |-> n] :
             n \in {NegAmount, 1}}

\* bodies of Producto updates that carry one price or a stock
PrecioUpdateFields ==
    {f \in PrecioFields : f.precio_base = Omitted \/ f.precio_descuento = Omitted}

PrecioPayloads(names, fields) ==
    {[name |-> n, precio_base |-> f.precio_base,
      precio_descuento |-> f.precio_descuento, stock_actual |-> f.stock_actual] :
        n \in names, f \in fields}

\* Producto requests that carry prices, and stock movements
NextPrecio ==
    /\ steps < MaxPrecioOps
    /\ \/ \E d \in PrecioPayloads({<<"x">>, Absent}, PrecioFields) : CreatePrecio(d)
       \/ \E m \in {"PUT", "PATCH"}, pk \in 1..MaxPrecioRecords,
             d \in PrecioPayloads({Absent}, PrecioUpdateFields) : UpdatePrecio(m, pk, d)
       \/ \E pk \in 1..MaxPrecioRecords, c \in CantidadArgs : actualizar_stock(pk, c)
    /\ page' = {}
    /\ UNCHANGED <<race, parents, rel, assoc>>

InitPrecio == kind = "Producto" /\ InitTables

Next ==
    /\ steps < MaxOps
    /\ \/ \E d \in CreatePayloads(kind) : Create(d.name, d.active, d.publicado)
       \/ \E m \in {"PUT", "PATCH"}, pk \in PkArgs, d \in UpdatePayloads(kind) :
             Update(m, pk, d.name, d.active, d.publicado)
       \/ \E pk \in PkArgs : Delete(pk)
       \/ \E pk \in PkArgs : Restore(pk)
       \/ \E sel \in SUBSET Pks(store) : AdminActivate(sel)
       \/ \E sel \in SUBSET Pks(store) : AdminDeactivate(sel)
       \/ \E sel \in SUBSET Pks(store) : AdminPublish(sel)
       \/ \E sel \in SUBSET Pks(store) : AdminUnpublish(sel)
       \/ \E o \in Orders(store) : AdminSoftDelete(o)
       \/ \E o \in Orders(store) : AdminRestore(o)
    /\ page' = {}
    /\ UNCHANGED <<race, parents, rel, assoc, precios>>

\* the REST surface alone
NextApi ==
    /\ steps < MaxApiOps
    /\ \/ \E d \in CreatePayloads(kind) : Create(d.name, d.active, d.publicado)
       \/ \E m \in {"PUT", "PATCH"}, pk \in PkArgs, d \in UpdatePayloads(kind) :
             Update(m, pk, d.name, d.active, d.publicado)
       \/ \E pk \in PkArgs : Delete(pk)
       \/ \E pk \in PkArgs : Restore(pk)
    /\ page' = {}
    /\ UNCHANGED <<race, parents, rel, assoc, precios>>

\* the REST surface with its reading endpoints
NextRead ==
    /\ steps < MaxReadOps
    /\ \/ /\ \/ \E d \in CreatePayloads(kind) : Create(d.name, d.active, d.publicado)
             \/ \E m \in {"PUT", "PATCH"}, pk \in PkArgs, d \in UpdatePayloads(kind) :
                   Update(m, pk, d.name, d.active, d.publicado)
             \/ \E pk \in PkArgs : Delete(pk)
             \/ \E pk \in PkArgs : Restore(pk)
          /\ page' = {}
       \/ \E pk \in PkArgs : Retrieve(pk)
       \/ List
    /\ UNCHANGED <<race, parents, rel, assoc, precios>>

\* create requests of several clients, interleaved between probe and insert
NextRace ==
    /\ steps < MaxRaceOps
    /\ \/ \E c \in Clients, d \in CreatePayloads(kind) :
             CreateProbe(c, d.name, d.active, d.publicado)
       \/ \E c \in Clients : CreateInsert(c)
    /\ UNCHANGED <<parents, rel, assoc, precios>>

\* creates and updates that carry a slug, with soft delete and restore
NextSlug ==
    /\ steps < MaxSlugOps
    /\ \/ \E n \in NameArgs(kind) \cup {Absent}, g \in SlugArgs : CreateSlug(n, g)
       \/ \E m \in {"PUT", "PATCH"}, pk \in PkArgs,
             n \in NameArgs(kind) \cup {Absent}, g \in SlugArgs : UpdateSlug(m, pk, n, g)
       \/ \E pk \in PkArgs : Delete(pk)
       \/ \E pk \in PkArgs : Restore(pk)
    /\ page' = {}
    /\ UNCHANGED <<race, parents, rel, assoc, precios>>

\* entity types with a slug column
InitSlug == kind \in {k \in Kinds : HasSlug(k)} /\ InitTables

Spec == Init /\ [][Next]_vars

SpecSlug == InitSlug /\ [][NextSlug]_vars

SpecFilter == Init /\ [][NextFilter]_vars

SpecPrecio == InitPrecio /\ [][NextPrecio]_vars

SpecApi == Init /\ [][NextApi]_vars

SpecRead == Init /\ [][NextRead]_vars

SpecRace == Init /\ [][NextRace]_vars

\* entity types whose rows point at parents
RelKinds == {"AttributeValue", "Subcategory", "Producto", "CategoriaAtributo"}

\* n rows, none deleted and all active, in every parent table of the
\* entity type
ParentsFilled(k, n) ==
    [t \in {"Attribute", "Category", "Brand"} |->
        IF t \in ParentTables(k)
        THEN [i \in 1..n |-> [deleted |-> FALSE, active |-> TRUE]]
        ELSE <<>>]

\* the run starts with one row in each parent table
InitRel ==
    /\ kind \in RelKinds
    /\ store = <<>>
    /\ last = Resp("none", NoPk, 0, "missing", NoRec)
    /\ mark = 0
    /\ steps = 0
    /\ page = {}
    /\ race = [c \in 1..MaxClients |-> [pc |-> "idle", row |-> NoRec, status |-> 0]]
    /\ parents = ParentsFilled(kind, 1)
    /\ rel = <<>>
    /\ assoc = [rows |-> <<>>, seq |-> 0]
    /\ precios = <<>>

\* child rows with their parents and unique keys, and the parents' own
\* endpoints
NextRel ==
    /\ steps < MaxRelOps
    /\ \/ /\ HasParent(kind)
          /\ \/ \E d \in RelPayloads(kind) : CreateRel(d)
             \/ \E pk \in RelPkArgs, d \in RelUpdatePayloads(kind) : UpdateRel("PATCH", pk, d)
             \/ \E pk \in RelPkArgs : Delete(pk) /\ rel' = rel
             \/ \E pk \in RelPkArgs : Restore(pk) /\ rel' = rel
          /\ UNCHANGED <<parents, assoc>>
       \/ /\ kind = "CategoriaAtributo"
          /\ \/ \E c, a \in ParentArgs \cup {NoArg} : AssocCreate(c, a)
             \/ \E items \in BulkItems : AssocBulkCreate(items)
             \/ \E pk \in 1..MaxRelOps, c, a \in ParentArgs \cup {NoArg} :
                   AssocUpdate("PATCH", pk, c, a)
             \/ \E pk \in 1..MaxRelOps : AssocDelete(pk)
          /\ mark' = Len(store)
          /\ steps' = steps + 1
          /\ UNCHANGED <<kind, store, rel, parents>>
       \/ /\ \/ \E t \in ParentTables(kind) : ParentCreate(t)
             \/ \E t \in ParentTables(kind), id \in ParentArgs, v \in BOOLEAN :
                   ParentSetActive(t, id, v)
             \/ \E t \in ParentTables(kind), id \in ParentArgs : ParentDelete(t, id)
             \/ \E t \in ParentTables(kind), id \in ParentArgs : ParentRestore(t, id)
          /\ mark' = Len(store)
          /\ steps' = steps + 1
          /\ UNCHANGED <<kind, store, rel, assoc>>
    /\ page' = {}
    /\ UNCHANGED <<race, precios>>

SpecRel == InitRel /\ [][NextRel]_vars

\* ---------------------------------------------------------------- bulk create
\* requests per run of bulk creates
MaxBulkOps == 3

\* entity types with a bulk-create endpoint
BulkKinds == {"Subcategory", "CategoriaAtributo"}

\* an element of the JSON list: an object with (some of) the fields of a
\* body, or a value that is no object (a number, a string)
BulkElements(k) ==
    IF k = "Subcategory"
    THEN {[object |-> TRUE, name |-> n, parent |-> a, parent2 |-> NoArg, key |-> NoArg] :
             n \in {<<"x">>, <<"y">>}, a \in 1..2}
         \cup {[object |-> TRUE, name |-> Absent, parent |-> 1, parent2 |-> NoArg, key |-> NoArg],
               [object |-> FALSE, name |-> Absent, parent |-> NoArg, parent2 |-> NoArg, key |-> NoArg]}
    ELSE {[object |-> TRUE, name |-> Absent, parent |-> c, parent2 |-> a, key |-> NoArg] :
             c \in 1..2, a \in 1..2}
         \cup {[object |-> FALSE, name |-> Absent, parent |-> NoArg, parent2 |-> NoArg, key |-> NoArg]}

\* the lists a bulk-create body may carry
BulkLists(k) == UNION {[1..n -> BulkElements(k)] : n \in 0..MaxBulk}

\* the tables a bulk create writes
Tables(st, rl, asc) == [store |-> st, rel |-> rl, assoc |-> asc]

\* serializer.is_valid() and serializer.save() for one object of the
\* list: the tables afterwards and whether a row was stored ("created"),
\* the object was refused ("invalid") or save() raised ("error")
BulkSaveNew(k, tabs, ps, it) ==
    IF k = "CategoriaAtributo"
    THEN LET one == AssocSaveNew(tabs.assoc, ps, it.parent, it.parent2)
         IN [tabs |-> [tabs EXCEPT !.assoc = one.assoc], result |-> one.result]
    ELSE LET row == RelRow(k, NewRel(k), it)
             rec == [name |-> it.name, slug |-> <<>>, deleted |-> FALSE,
                     active |-> TRUE, publicado |-> FALSE]
             res == Save(k, tabs.store, NoPk, rec)
         IN IF \/ it.name = Absent
               \/ NameClash(k, tabs.store, it.name, NoPk)
               \/ RelInvalid(k, tabs.store, tabs.rel, ps, NoPk, it)
            THEN [tabs |-> tabs, result |-> "invalid"]
            ELSE IF KeyViolation(k, tabs.store, tabs.rel, NoPk, row) \/ ~res.ok
            THEN [tabs |-> tabs, result |-> "error"]
            ELSE [tabs |-> [tabs EXCEPT !.store = res.store, !.rel = Append(tabs.rel, row)],
                  result |-> "created"]

\* the loop of bulk_create_subcategories / bulk_create_categoria_atributos:
\* every element gets its own serializer, run against the tables as the
\* elements before left them; an element that is no object makes
\* to_internal_value raise out of is_valid(), which ends the loop
RECURSIVE BulkLoop(_, _, _, _)
BulkLoop(k, tabs, ps, items) ==
    IF items = <<>> THEN [tabs |-> tabs, created |-> 0, errors |-> 0, raised |-> FALSE]
    ELSE IF ~Head(items).object
    THEN [tabs |-> tabs, created |-> 0, errors |-> 0, raised |-> TRUE]
    ELSE LET one  == BulkSaveNew(k, tabs, ps, Head(items))
             rest == BulkLoop(k, one.tabs, ps, Tail(items))
         IN [tabs    |-> rest.tabs,
             created |-> rest.created + (IF one.result = "created" THEN 1 ELSE 0),
             errors  |-> rest.errors + (IF one.result = "created" THEN 0 ELSE 1),
             raised  |-> rest.raised]

\* the status the view answers with
BulkStatus(res) ==
    IF res.raised THEN 500
    ELSE IF res.created > 0 /\ res.errors = 0 THEN 201
    ELSE IF res.created > 0 THEN 207
    ELSE 400

\* POST bulk-create with a JSON list
BulkCreate(items) ==
    /\ Len(store) + Cardinality(DOMAIN assoc.rows) + Len(items) <= MaxRecords
    /\ LET res == BulkLoop(kind, Tables(store, rel, assoc), parents, items)
       IN /\ store' = res.tabs.store
          /\ rel' = res.tabs.rel
          /\ assoc' = res.tabs.assoc
          /\ last' = Resp("bulk_create", NoPk, BulkStatus(res), "missing", NoRec)
    /\ mark' = Len(store)
    /\ steps' = steps + 1
    /\ UNCHANGED <<kind, parents>>

\* bulk creates, with the parents created and soft-deleted in between
NextBulk ==
    /\ steps < MaxBulkOps
    /\ \/ \E items \in BulkLists(kind) : BulkCreate(items)
       \/ /\ \/ \E t \in ParentTables(kind) : ParentCreate(t)
             \/ \E t \in ParentTables(kind), id \in ParentArgs : ParentDelete(t, id)
          /\ mark' = Len(store)
          /\ steps' = steps + 1
          /\ UNCHANGED <<kind, store, rel, assoc>>
    /\ page' = {}
    /\ UNCHANGED <<race, precios>>

\* the run starts with one row in each parent table
InitBulk ==
    /\ kind \in BulkKinds
    /\ store = <<>>
    /\ last = Resp("none", NoPk, 0, "missing", NoRec)
    /\ mark = 0
    /\ steps = 0
    /\ page = {}
    /\ race = [c \in 1..MaxClients |-> [pc |-> "idle", row |-> NoRec, status |-> 0]]
    /\ parents = ParentsFilled(kind, 1)
    /\ rel = <<>>
    /\ assoc = [rows |-> <<>>, seq |-> 0]
    /\ precios = <<>>

SpecBulk == InitBulk /\ [][NextBulk]_vars


\* ---------------------------------------------------------------- properties
IsDigit(c) == c \in {"0", "1", "2", "3", "4", "5", "6", "7", "8", "9"}

\* slug is base, or base followed by a hyphen and a decimal number
IsSlugForm(slug, base) ==
    \/ slug = base
    \/ /\ Len(slug) > Len(base) + 1
       /\ SubSeq(slug, 1, Len(base)) = base
       /\ slug[Len(base) + 1] = "-"
       /\ \A i \in (Len(base) + 2)..Len(slug) : IsDigit(slug[i])

OkStatus == {200, 204}

\* C1: for every entity type with an active flag, a row whose deleted_at is
\* set has its active flag false, after any sequence of API requests and
\* admin bulk actions.
C1_DeletedImpliesInactive ==
    HasActive(kind) => \A p \in Pks(store) : store[p].deleted => ~store[p].active

C1_Witness ==
    /\ HasActive(kind)
    /\ last.op \in {"admin_activate", "admin_publish"}
    /\ \E p \in Pks(store) : store[p].deleted
    /\ \E p \in Pks(store) : ~store[p].deleted /\ store[p].active

\* C2: no two rows of a slugged entity type, soft-deleted rows included,
\* hold the same slug.
C2_SlugsUnique ==
    HasSlug(kind) =>
        \A p, q \in Pks(store) : p # q => store[p].slug # store[q].slug

C2_Witness ==
    /\ HasSlug(kind)
    /\ \E p, q \in Pks(store) :
          /\ p # q
          /\ store[p].deleted
          /\ ~store[q].deleted
          /\ slugify(store[p].name) = slugify(store[q].name)

\* C3: the slug the probe hands to the storage layer, for a new row or for
\* a row saved again under any name, is held by no other row, soft-deleted
\* rows included.
C3_ProbeCountsDeletedSlugs ==
    HasSlug(kind) =>
        \A pk \in Pks(store) \cup {NoPk} : \A n \in Names :
            ~SlugUniqueViolation(kind, store, pk, Probe(store, slugify(n), pk, 0))

\* C4: three rows created one after the other, with names of one base slug
\* (distinct names, and equal ones where the entity type admits them), into
\* a store holding no slug of the form base or base-k, get the slugs base,
\* base-1 and base-2 in creation order.
C4_ThreeCreatesGetSuffixes ==
    HasSlug(kind) =>
        \A i \in Pks(store) :
            LET b == slugify(store[i].name)
            IN ( /\ i > mark
                 /\ i + 2 \in Pks(store)
                 /\ slugify(store[i + 1].name) = b
                 /\ slugify(store[i + 2].name) = b
                 /\ \A q \in 1..(i - 1) : ~IsSlugForm(store[q].slug, b) )
               => /\ store[i].slug = b
                  /\ store[i + 1].slug = b \o <<"-", "1">>
                  /\ store[i + 2].slug = b \o <<"-", "2">>

C4_Witness ==
    /\ NameUnique(kind)
    /\ mark = 0
    /\ Len(store) = 3
    /\ last.status = 201
    /\ slugify(store[1].name) = slugify(store[2].name)
    /\ slugify(store[2].name) = slugify(store[3].name)
    /\ store[1].name # store[2].name
    /\ store[1].name # store[3].name
    /\ store[2].name # store[3].name
    /\ store[3].name = <<"x">>

\* C5: a DELETE addressed to a row that is not deleted is answered 200/204
\* and leaves the row soft-deleted with its active flag (and publicado)
\* false.
C5_DeleteOfLiveRowSucceeds ==
    (last.op = "delete" /\ last.was = "live") =>
        /\ last.status \in OkStatus
        /\ store[last.pk].deleted
        /\ HasActive(kind) => ~store[last.pk].active
        /\ HasPublicado(kind) => ~store[last.pk].publicado

\* C6: a restore addressed to a soft-deleted row is answered 200 and leaves
\* the row with deleted_at null and its active flag true, whatever other
\* rows exist.
C6_RestoreOfDeletedRowSucceeds ==
    (last.op = "restore" /\ last.was = "deleted") =>
        /\ last.status = 200
        /\ ~store[last.pk].deleted
        /\ HasActive(kind) => store[last.pk].active

\* C7: soft-deleting an active row and restoring it gives back the row as
\* it was before the delete: deleted_at null, active flag true, and name,
\* slug and publicado unchanged.
C7_DeleteThenRestoreIsIdentity ==
    [][ ( /\ last.op = "delete"
          /\ last.status \in OkStatus
          /\ HasActive(kind) => last.before.active
          /\ last'.op = "restore"
          /\ last'.pk = last.pk )
        => store'[last.pk] = last.before ]_vars

\* C8: no two non-deleted rows of a name-unique entity type have names
\* that are equal ignoring case.
C8_LiveNamesUnique ==
    NameUnique(kind) =>
        \A p, q \in Objects(store) : p # q => ~IExact(store[p].name, store[q].name)

\* C9: an update addressed to a soft-deleted row leaves the store as it
\* was.
C9_UpdateOfDeletedRowChangesNothing ==
    [][ (last'.op = "update" /\ last'.was = "deleted") => store' = store ]_vars

C9_Witness ==
    /\ last.op = "update"
    /\ last.was = "deleted"
    /\ last.pk \in Pks(store)
    /\ store[last.pk].deleted

\* C10: a DELETE or an update addressed to a row that is already
\* soft-deleted is answered 400.
C10_DeletedTargetAnswered400 ==
    (last.op \in {"delete", "update"} /\ last.was = "deleted") => last.status = 400

\* C11: a restore addressed to a row that is not deleted is answered 400 and
\* leaves the store as it was.
C11_RestoreOfLiveRowRejected ==
    [][ (last'.op = "restore" /\ last'.was = "live")
        => (last'.status = 400 /\ store' = store) ]_vars

C11_Witness ==
    /\ last.op = "restore"
    /\ last.was = "live"
    /\ last.status = 400
    /\ HasSlug(kind)
    /\ \E p \in Pks(store) : p # last.pk /\ store[p].deleted
                               /\ slugify(store[p].name) = slugify(store[last.pk].name)

\* C12: a retrieve, update, delete or restore naming an id no row has is
\* answered 404 and leaves the store as it was.
C12_MissingIdAnswered404 ==
    [][ (last'.op \in {"retrieve", "update", "delete", "restore"} /\ last'.was = "missing")
        => (last'.status = 404 /\ store' = store) ]_vars

\* C14: the default view holds exactly the rows whose deleted_at is null,
\* only_deleted exactly those whose deleted_at is set, with_deleted all of
\* them; a list answer carries exactly the rows of the default view and a
\* retrieve answers 200 only for a row of the default view.
C14_ViewsPartitionAndReadsUseDefault ==
    /\ \A p \in Pks(store) : (p \in Objects(store)) <=> ~store[p].deleted
    /\ \A p \in Pks(store) : (p \in OnlyDeleted(store)) <=> store[p].deleted
    /\ AllObjects(store) = DOMAIN store
    /\ Objects(store) \cap OnlyDeleted(store) = {}
    /\ Objects(store) \cup OnlyDeleted(store) = AllObjects(store)
    /\ last.op = "list" => page = {p \in DOMAIN store : ~store[p].deleted}
    /\ (last.op = "retrieve" /\ last.status = 200) =>
           /\ page = {last.pk}
           /\ last.pk \in DOMAIN store
           /\ ~store[last.pk].deleted
    /\ (last.op = "retrieve" /\ last.was = "deleted") => (last.status # 200 /\ page = {})

C14_Witness ==
    /\ last.op = "list"
    /\ page # {}
    /\ \E p \in Pks(store) : store[p].deleted

\* C15: no list, retrieve, create, update, delete or restore request
\* removes a row: every primary key stored before a request is stored
\* after it.
C15_NoRowIsRemoved ==
    [][ DOMAIN store \subseteq DOMAIN store' ]_vars

C15_Witness ==
    /\ last.op = "delete"
    /\ last.status \in OkStatus
    /\ last.pk \in DOMAIN store
    /\ store[last.pk].deleted
    /\ Len(store) > 1

\* the k-th candidate of the probe for a base slug: base, base-1, base-2, ...
Candidate(base, k) == IF k = 0 THEN base ELSE base \o <<"-">> \o Decimal(k)

\* C16: after an update answered 200 that changed the name of a row, the
\* row's slug is the normalised new name or that form with a suffix -k,
\* k >= 1; no other row holds it, and every earlier candidate (the bare
\* form and the smaller suffixes) is held by another row.
C16_RenameRederivesSlug ==
    [][ ( /\ HasSlug(kind)
          /\ last'.op = "update"
          /\ last'.status = 200
          /\ store'[last'.pk].name # store[last'.pk].name )
        => LET pk == last'.pk
               b  == slugify(store'[pk].name)
           IN \E k \in 0..Len(store) :
                 /\ store'[pk].slug = Candidate(b, k)
                 /\ \A q \in DOMAIN store' \ {pk} : store'[q].slug # store'[pk].slug
                 /\ \A j \in 0..(k - 1) :
                        \E q \in DOMAIN store' \ {pk} : store'[q].slug = Candidate(b, j) ]_vars

\* a rename that had to take a suffix
C16_Witness ==
    /\ HasSlug(kind)
    /\ last.op = "update"
    /\ last.status = 200
    /\ store[last.pk].name = <<"x", "?">>
    /\ store[last.pk].slug = <<"x", "-", "1">>
    /\ \E q \in DOMAIN store \ {last.pk} : store[q].slug = <<"x">> /\ ~store[q].deleted
    /\ mark > 0
    /\ last.pk = 1

\* C18 (as stated): no operation changes a row's active flag while leaving
\* its deleted_at unchanged, or changes deleted_at without leaving the
\* active flag in line with it.
C18_FlagsNeverToggledApart ==
    [][ HasActive(kind) =>
          \A p \in DOMAIN store :
             /\ store'[p].active # store[p].active => store'[p].deleted # store[p].deleted
             /\ store'[p].deleted # store[p].deleted => store'[p].active = ~store'[p].deleted ]_vars

\* C18 (amended): deleted_at never changes without the active flag being
\* brought in line (false on soft delete, true on restore), and the active
\* flag of a soft-deleted row is never changed on its own; the active flag
\* of a row that is not deleted may be.
C18_DeletionMovesActiveFlag ==
    [][ HasActive(kind) =>
          \A p \in DOMAIN store :
             /\ store'[p].deleted # store[p].deleted => store'[p].active = ~store'[p].deleted
             /\ (store'[p].active # store[p].active /\ store'[p].deleted = store[p].deleted)
                   => ~store[p].deleted ]_vars

C18_Witness ==
    /\ HasActive(kind)
    /\ last.op \in {"update", "admin_deactivate"}
    /\ \E p \in DOMAIN store : ~store[p].deleted /\ ~store[p].active
    /\ \E q \in DOMAIN store : store[q].deleted

\* C17: when two creates of one base slug both probe before either
\* inserts, no two rows end up with one slug, the request that loses
\* stores nothing, and it is answered with a conflict (409), not with 500.
C17_RaceLoserGetsConflict ==
    /\ HasSlug(kind) =>
          \A p, q \in DOMAIN store : p # q => store[p].slug # store[q].slug
    /\ \A c \in Clients :
          (race[c].pc = "done" /\ race[c].status \notin {201, 400}) =>
             race[c].status = 409

\* the relation columns `row` repeat a unique key some other stored row
\* holds: a non-blank sku_base of any product, soft-deleted or not, or the
\* (atributo, orden) / (category, order) pair of any row
DupKey(k, st, rl, pk, row) ==
    IF k = "Producto"
    THEN row.key > 0 /\ \E p \in DOMAIN st : p # pk /\ rl[p].key = row.key
    ELSE \E p \in DOMAIN st : p # pk /\ rl[p].parent = row.parent /\ rl[p].key = row.key

\* C13: a create or an update whose body would repeat a unique key (a
\* Producto sku_base, an AttributeValue (atributo, orden) pair, a
\* Subcategory (category, order) pair) is answered 400, never 500.
C13_DuplicateKeyAnswered400 ==
    [][ \A d \in RelPayloads(kind) :
          /\ ( /\ CreateRel(d)
               /\ DupKey(kind, store, rel, NoPk, RelRow(kind, NewRel(kind), d)) )
             => last'.status = 400
          /\ \A m \in {"PUT", "PATCH"}, pk \in Objects(store) :
                ( /\ UpdateRel(m, pk, d)
                  /\ DupKey(kind, store, rel, pk, RelRow(kind, rel[pk], d)) )
                => last'.status = 400 ]_vars

\* the id names no row of the parent table, a soft-deleted row or, for
\* Producto, a row that is not active
BadParent(k, ps, t, id) ==
    \/ id \notin DOMAIN ps[t]
    \/ ps[t][id].deleted
    \/ k = "Producto" /\ ~ps[t][id].active

\* the body d names a parent that is bad
BadRef(k, ps, d) ==
    \/ d.parent # NoArg /\ BadParent(k, ps, FirstParent(k), d.parent)
    \/ /\ HasSecondParent(k)
       /\ d.parent2 # NoArg
       /\ BadParent(k, ps, SecondParent(k), d.parent2)

\* the id names a row of the parent table that is not soft-deleted
LiveParent(ps, t, id) == id \in DOMAIN ps[t] /\ ~ps[t][id].deleted

\* C19: a create, or an update of a stored row, whose body names a parent
\* that is missing, soft-deleted or (Producto) inactive is answered 400
\* and leaves every table as it was; and every row stored by a create
\* (AttributeValue, Subcategory, Producto, CategoriaAtributo, bulk create
\* included) points at parents that are not soft-deleted at that moment.
C19_BadParentRejected ==
    [][ /\ (HasParent(kind) /\ last'.op = "create"
             /\ ~(last'.status = 400 /\ store' = store /\ rel' = rel))
           => \A d \in RelPayloads(kind) :
                 BadRef(kind, parents, d) => ~CreateRel(d)
        /\ (HasParent(kind) /\ last'.op = "update" /\ last'.pk \in Objects(store)
             /\ ~(last'.status = 400 /\ store' = store /\ rel' = rel))
           => \A d \in RelPayloads(kind), m \in {"PUT", "PATCH"} :
                 BadRef(kind, parents, d) => ~UpdateRel(m, last'.pk, d)
        /\ (kind = "CategoriaAtributo" /\ last'.op = "create"
             /\ ~(last'.status = 400 /\ assoc' = assoc))
           => \A c, a \in ParentArgs \cup {NoArg} :
                 ( \/ c # NoArg /\ BadParent(kind, parents, "Category", c)
                   \/ a # NoArg /\ BadParent(kind, parents, "Attribute", a) )
                 => ~AssocCreate(c, a)
        /\ (kind = "CategoriaAtributo" /\ last'.op = "update"
             /\ last'.pk \in DOMAIN assoc.rows
             /\ ~(last'.status = 400 /\ assoc' = assoc))
           => \A c, a \in ParentArgs \cup {NoArg}, m \in {"PUT", "PATCH"} :
                 ( \/ c # NoArg /\ BadParent(kind, parents, "Category", c)
                   \/ a # NoArg /\ BadParent(kind, parents, "Attribute", a) )
                 => ~AssocUpdate(m, last'.pk, c, a)
        /\ Len(store') > Len(store) =>
              /\ LiveParent(parents, FirstParent(kind), rel'[Len(store')].parent)
              /\ rel'[Len(store')].parent2 # NoArg =>
                    LiveParent(parents, SecondParent(kind), rel'[Len(store')].parent2)
        /\ \A p \in DOMAIN assoc'.rows \ DOMAIN assoc.rows :
              /\ LiveParent(parents, "Category", assoc'.rows[p].categoria)
              /\ LiveParent(parents, "Attribute", assoc'.rows[p].atributo) ]_vars

\* an AttributeValue update that names a parent was answered 400 while
\* the Attribute table holds a soft-deleted row, and a child is stored
C19_Witness ==
    /\ kind = "AttributeValue"
    /\ last.op = "update"
    /\ last.status = 400
    /\ last.pk \in Objects(store)
    /\ \E id \in DOMAIN parents["Attribute"] : parents["Attribute"][id].deleted

\* no two stored associations have one (categoria, atributo) pair
PairsUnique(asc) ==
    \A p, q \in DOMAIN asc.rows : p # q => asc.rows[p] # asc.rows[q]

\* a bulk-create list repeats a stored pair or holds one pair twice
RepeatsPair(asc, items) ==
    \/ \E i \in DOMAIN items : PairStored(asc, NoPk, items[i][1], items[i][2])
    \/ \E i, j \in DOMAIN items : i # j /\ items[i] = items[j]

\* the rows stored before the request are all still there, unchanged
RowsKept(asc, after) ==
    \A p \in DOMAIN asc.rows : p \in DOMAIN after.rows /\ after.rows[p] = asc.rows[p]

C24_SlugKeptWhileNameKept ==
    [][ HasSlug(kind) =>
          \A p \in DOMAIN store :
             store'[p].name = store[p].name => store'[p].slug = store[p].slug ]_vars

\* C26: the probe loop of save() ends for every store: with n rows that
\* are not soft-deleted it evaluates its condition at most n + 1 times, so
\* the suffix it assigns is at most n; checked for the save of every
\* stored row and of a new row, under every name.
C26_ProbeLoopBounded ==
    HasSlug(kind) =>
       \A pk \in Pks(store) \cup {NoPk}, name \in Names :
          /\ ProbeCount(store, slugify(name), pk, 0) <= Cardinality(Objects(store)) + 1
          /\ Probe(store, slugify(name), pk, 0)
                = Candidate(slugify(name), ProbeCount(store, slugify(name), pk, 0) - 1)

\* a create has just taken the full n + 1 probes, n = 2
C26_Witness ==
    /\ HasSlug(kind)
    /\ last.op = "create"
    /\ last.status = 201
    /\ last.pk = 3
    /\ Cardinality(Objects(store)) = 3
    /\ store[3].slug = Suffixed(slugify(store[3].name), 2)
    /\ ProbeCount(store, slugify(store[3].name), 3, 0) = 3

C21_PrecioFinalIsDiscountWhenSet ==
    \A p \in DOMAIN precios :
       precio_final(precios[p]) =
          IF precios[p].precio_descuento # NullPrecio
          THEN precios[p].precio_descuento
          ELSE precios[p].precio_base

\* C25: a create that is not answered 201 stores nothing.
C25_FailedCreateStoresNothing ==
    [][ (last'.op = "create" /\ last'.status # 201)
           => (store' = store /\ precios' = precios) ]_vars

\* C28: every stored product with both prices set has precio_descuento
\* below precio_base.
C28_DiscountBelowBase ==
    \A p \in DOMAIN precios :
       (precios[p].precio_base # NullPrecio /\ precios[p].precio_descuento # NullPrecio)
          => precios[p].precio_descuento < precios[p].precio_base

\* C29: stock_actual is never negative, and actualizar_stock(cantidad)
\* sets it to max(0, stock_actual + cantidad) and changes nothing else.
C29_StockFlooredAtZero ==
    [][ /\ \A p \in DOMAIN precios' : precios'[p].stock_actual >= 0
        /\ last'.op = "actualizar_stock" =>
              \A c \in CantidadArgs :
                 actualizar_stock(last'.pk, c) =>
                    /\ precios'[last'.pk].stock_actual =
                          (IF precios[last'.pk].stock_actual + c > 0
                           THEN precios[last'.pk].stock_actual + c ELSE 0)
                    /\ precios' = [precios EXCEPT ![last'.pk].stock_actual =
                                      precios'[last'.pk].stock_actual]
                    /\ store' = store ]_vars

\* a stock movement has left a product that has a price at stock 0
C29_Witness ==
    /\ last.op = "actualizar_stock"
    /\ last.pk \in DOMAIN precios
    /\ precios[last.pk].stock_actual = 0
    /\ precios[last.pk].precio_base # NullPrecio
    /\ steps = MaxPrecioOps

\* C22: the products_count of every Category and Brand equals the number
\* of Producto rows that reference it.
C22_ProductsCountCountsProducts ==
    kind = "Producto" =>
       \A t \in {"Category", "Brand"} :
          \A id \in DOMAIN parents[t] :
             products_count(store, rel, t, id)
                = Cardinality(Referencing(store, rel, t, id))

\* C23: a listing with the boolean filter '1' or 'true' returns exactly
\* the listed rows whose flag is true, with '0' or 'false' those whose
\* flag is false, and with the parameter absent or empty all of them.
C23_FilterSelectsByFlag ==
    [][ \A f \in FilterArgs :
          ListFiltered(f) =>
             page' = {p \in Objects(store) :
                        \/ f \in {"absent", ""}
                        \/ f \in {"1", "true"} /\ store[p].active
                        \/ f \in {"0", "false"} /\ ~store[p].active} ]_vars

\* rows of the two tables a bulk create writes
RowCount(st, asc) == Len(st) + Cardinality(DOMAIN asc.rows)

\* C30: a bulk create of a list of n elements decides every element on
\* its own, in list order: success_count + error_count = n, exactly
\* success_count rows are added, and the status is 201 when all
\* elements are stored, 207 when some are, 400 when none is (the empty
\* list included).
C30_BulkCountsAndStatus ==
    [][ last'.op = "bulk_create" =>
          \A items \in BulkLists(kind) :
             BulkCreate(items) =>
                LET res   == BulkLoop(kind, Tables(store, rel, assoc), parents, items)
                    added == RowCount(store', assoc') - RowCount(store, assoc)
                IN /\ res.created + res.errors = Len(items)
                   /\ added = res.created
                   /\ last'.status =
                         (IF added = Len(items) /\ added > 0 THEN 201
                          ELSE IF added > 0 THEN 207 ELSE 400) ]_vars

====
